---- MODULE Spec2Model ----
(***************************************************************************)
(* Email breach search: the two Streamlit scripts EmailHacks.py and        *)
(* "Email Hacks.py" (src/unnamed/part_000).  A Streamlit script is run top *)
(* to bottom on every widget change; one run is one action.  The state is  *)
(* the process environment, the st.cache_data store of fetch_breach_data,  *)
(* the number of GET requests sent, and what the last run of each script   *)
(* put on the page.                                                        *)
(*                                                                         *)
(* Strings whose characters matter (emails, breach names, search text) are *)
(* sequences of one-character strings.                                     *)
(***************************************************************************)
EXTENDS Integers, Sequences, FiniteSets, TLC

VARIABLES
    env,           \* os.environ: variable name -> value (Unset when absent)
    cache,         \* st.cache_data store of fetch_breach_data, per script, by email
    requests,      \* GET requests sent so far, per script and email
    run,           \* what the last run of each script read and displayed
    fetched,       \* SpecRender: the record list handed to the display code
    search_query,  \* SpecRender: the text of the "Search breaches" input
    page           \* SpecRender: what the display code rendered

vars == <<env, cache, requests, run, fetched, search_query, page>>

(***************************************************************************)
(* Bounds and input sets                                                   *)
(***************************************************************************)
MaxRecords == 2      \* longest record list drawn in SpecRender
MaxRequests == 2     \* cap on the per-email request counter

Scripts == {"EmailHacks", "EmailHacksV1"}

Unset == "<unset>"
EnvVars == {"RapidAPI", "RAPIDAPI_KEY"}
EnvValues == {Unset, "", "k"}

Emails == { <<>>, <<"a", "b">>, <<"a", "@", "b">>, <<"b", "@", "a">> }

NoName == <<"NaN">>  \* a record whose name is null
Names == { NoName, <<"a", ".">>, <<"A", "b">> }
Queries == { <<>>, <<"a">>, <<"b">>, <<".">> }
BreachDates == {"2019-03-01", "unknown"}
RowCounts == {9999, 10000, 1000000, 1000001}

Records == [name : Names, breach_date : BreachDates, rows : RowCounts]

SeqsUpTo(S, n) == UNION { [1..k -> S] : k \in 0..n }

\* Record lists the breach API answers with in Spec (the session model).
SampleLists ==
    { <<>>,
      << [name |-> <<"a", ".">>, breach_date |-> "2019-03-01", rows |-> 10000] >>,
      << [name |-> <<"A", "b">>, breach_date |-> "unknown", rows |-> 1000001],
         [name |-> NoName, breach_date |-> "2019-03-01", rows |-> 9999] >> }

\* Outcome of requests.get + raise_for_status + json.
HttpResponses ==
    { [ok |-> FALSE, body |-> <<>>] } \cup { [ok |-> TRUE, body |-> l] : l \in SampleLists }

(***************************************************************************)
(* Python values                                                           *)
(***************************************************************************)
None == [isNone |-> TRUE, list |-> <<>>]
Some(l) == [isNone |-> FALSE, list |-> l]

\* Python truthiness of None / a list (`if data:`).
Truthy(d) == ~d.isNone /\ Len(d.list) > 0

\* Python truthiness of os.getenv's result (`if not API_KEY:`).
KeyPresent(v) == v # Unset /\ v # ""

getenv(name) == env[name]

HasAt(email) == \E i \in DOMAIN email : email[i] = "@"

(***************************************************************************)
(* assign_risk and the sidebar guide                                       *)
(***************************************************************************)
HighThreshold == 1000000
MediumThreshold == 10000

assign_risk(rows) ==
    IF rows > HighThreshold THEN "High"
    ELSE IF rows > MediumThreshold THEN "Medium"
    ELSE "Low"

\* The sidebar's Risk Score guide: Low < 10,000; Medium 10,000 - 1,000,000;
\* High > 1,000,000.
GuideRisk(rows) ==
    IF rows < MediumThreshold THEN "Low"
    ELSE IF rows <= HighThreshold THEN "Medium"
    ELSE "High"

(***************************************************************************)
(* pandas pieces used by EmailHacks.py                                     *)
(***************************************************************************)
\* pd.DataFrame(data): one row per record, labelled by its position.
DataFrame(data) ==
    [i \in 1..Len(data) |->
        [idx |-> i - 1, name |-> data[i].name,
         breach_date |-> data[i].breach_date, rows |-> data[i].rows]]

\* df["risk_level"] = df["rows"].apply(assign_risk)
WithRisk(df) ==
    [i \in 1..Len(df) |->
        [idx |-> df[i].idx, name |-> df[i].name, breach_date |-> df[i].breach_date,
         rows |-> df[i].rows, risk_level |-> assign_risk(df[i].rows)]]

\* re.IGNORECASE on the characters the model uses.
Lower(c) == IF c = "A" THEN "a" ELSE IF c = "B" THEN "b" ELSE c

\* One pattern character against one subject character: str.contains is called
\* with its default regex=True, so "." is the regular expression wildcard.
AtomMatches(p, c) == p = "." \/ Lower(p) = Lower(c)

\* Series.str.contains(pat, case=False, na=False): re.search of pat in the name;
\* a null name gives na, i.e. False.
str_contains(name, pat) ==
    IF name = NoName THEN FALSE
    ELSE \E i \in 1..(Len(name) - Len(pat) + 1) :
            \A j \in 1..Len(pat) : AtomMatches(pat[j], name[i + j - 1])

\* FilterFrame without the `if search_query:` test.
FilterFrame_Unguarded(df, q) == SelectSeq(df, LAMBDA r : str_contains(r.name, q))

\* if search_query: df = df[df["name"].str.contains(search_query, ...)]
FilterFrame(df, q) ==
    IF q # <<>> THEN SelectSeq(df, LAMBDA r : str_contains(r.name, q)) ELSE df

\* pd.to_datetime(..., errors="coerce") followed by .dt.year; NaT has no year.
NaT == -1
YearOf(breach_date) ==
    IF breach_date = "2019-03-01" THEN 2019
    ELSE IF breach_date = "2020-11-30" THEN 2020
    ELSE NaT

\* df["year"].value_counts().sort_index(): year -> number of rows; value_counts
\* drops the rows without a year.
YearCounts(df) ==
    LET years == { YearOf(df[i].breach_date) : i \in 1..Len(df) } \ {NaT}
    IN  [y \in years |-> Cardinality({ i \in 1..Len(df) : YearOf(df[i].breach_date) = y })]

\* df["risk_level"].value_counts(): the levels present, most frequent first.  The
\* order among equal counts is not fixed by pandas: every order is possible.
RiskCount(df, level) == Cardinality({ i \in 1..Len(df) : df[i].risk_level = level })
ValueCountOrders(df) ==
    LET present == { df[i].risk_level : i \in 1..Len(df) }
        n == Cardinality(present)
    IN  { o \in [1..n -> present] :
            /\ \A i, j \in 1..n : i # j => o[i] # o[j]
            /\ \A i, j \in 1..n : i < j => RiskCount(df, o[i]) >= RiskCount(df, o[j]) }

\* ax.pie(risk_counts, labels=risk_counts.index, colors=["green","yellow","red"]):
\* the i-th slice takes the i-th colour.
PieColors == <<"green", "yellow", "red">>
PieColor(i) == PieColors[((i - 1) % Len(PieColors)) + 1]
Pie(df, order) ==
    [i \in 1..Len(order) |->
        [label |-> order[i], count |-> RiskCount(df, order[i]), color |-> PieColor(i)]]

\* df.to_excel(writer, index=False): the rows of df as it is at that point
\* (filtered, breach_date parsed, year added), without the index.
ExcelExport(df) ==
    [i \in 1..Len(df) |->
        [name |-> df[i].name, rows |-> df[i].rows, risk_level |-> df[i].risk_level,
         year |-> YearOf(df[i].breach_date)]]

\* json.dumps(data, indent=4): one object per record of data, in order.
JsonExport(data) ==
    [i \in 1..Len(data) |->
        [name |-> data[i].name, rows |-> data[i].rows, breach_date |-> data[i].breach_date]]

(***************************************************************************)
(* The `if data:` branch of each script: what is put on the page           *)
(***************************************************************************)
NoPage ==
    [script |-> "none", query |-> <<>>, table |-> <<>>, expanders |-> <<>>,
     year_counts |-> <<>>, pie |-> <<>>, export |-> <<>>]

\* EmailHacks.py: table, expanders, both charts and the Excel file all read df
\* after the filter.  One page per possible order of value_counts.
EmailHacksPages(data, q) ==
    LET df == FilterFrame(WithRisk(DataFrame(data)), q)
    IN  { [script |-> "EmailHacks", query |-> q,
           table |-> df,
           expanders |-> [i \in 1..Len(df) |->
                            [idx |-> df[i].idx, name |-> df[i].name, rows |-> df[i].rows,
                             risk_level |-> df[i].risk_level]],
           year_counts |-> YearCounts(df),
           pie |-> Pie(df, o),
           export |-> ExcelExport(df)] : o \in ValueCountOrders(df) }

\* Email Hacks.py: table and expanders over data, JSON file of data; no search
\* box, no risk level, no charts.
EmailHacksV1Pages(data) ==
    LET df == DataFrame(data)
    IN  { [script |-> "EmailHacksV1", query |-> <<>>,
           table |-> df,
           expanders |-> [i \in 1..Len(data) |->
                            [idx |-> i - 1, name |-> data[i].name, rows |-> data[i].rows]],
           year_counts |-> <<>>,
           pie |-> <<>>,
           export |-> JsonExport(data)] }

(***************************************************************************)
(* fetch_breach_data under st.cache_data                                   *)
(***************************************************************************)
\* fetch_breach_data with an except branch that returns None without st.error.
FetchResult_Silent(resp) ==
    IF resp.ok THEN [value |-> Some(resp.body), messages |-> {}]
    ELSE [value |-> None, messages |-> {}]

\* The body of fetch_breach_data: the parsed JSON, or st.error and None when
\* requests raises RequestException.
FetchResult(resp) ==
    IF resp.ok THEN [value |-> Some(resp.body), messages |-> {}]
    ELSE [value |-> None, messages |-> {"fetch_error"}]

\* A cache that keeps no entry for a None result.
CacheStore_SkipNone(r) ==
    [cached |-> r.value # [isNone |-> TRUE, list |-> <<>>],
     value |-> r.value, messages |-> r.messages]

\* st.cache_data stores every return value (None included) together with the
\* st elements the call displayed, and replays them on a hit.
NotCached == [cached |-> FALSE, value |-> None, messages |-> {}]
CacheStore(r) == [cached |-> TRUE, value |-> r.value, messages |-> r.messages]

\* A call fetch_breach_data(email): the cache entry of this email decides
\* whether the body runs (and the GET is sent).  On a miss the outcome depends
\* on what the API answers: one possible call per response.
CachedCalls(entry) ==
    IF entry.cached
    THEN { [value |-> entry.value, messages |-> entry.messages, sent |-> 0,
            response |-> "none", entry |-> entry] }
    ELSE { LET r == FetchResult(resp)
           IN  [value |-> r.value, messages |-> r.messages, sent |-> 1,
                response |-> IF resp.ok THEN "ok" ELSE "failed",
                entry |-> CacheStore(r)] : resp \in HttpResponses }

(***************************************************************************)
(* One run of a script                                                     *)
(***************************************************************************)
NoRun ==
    [ran |-> FALSE, email |-> <<>>, API_KEY |-> Unset, stopped |-> FALSE,
     called |-> FALSE, sent |-> 0, response |-> "none", data |-> None,
     shown |-> {}, page |-> NoPage]

\* if not API_KEY: st.error(...); st.stop()
KeyMissingRun(API_KEY, email) ==
    [ran |-> TRUE, email |-> email, API_KEY |-> API_KEY, stopped |-> TRUE,
     called |-> FALSE, sent |-> 0, response |-> "none", data |-> None,
     shown |-> {"key_error"}, page |-> NoPage]

\* A run that never calls fetch_breach_data.
NoFetchRun(API_KEY, email, shown) ==
    [ran |-> TRUE, email |-> email, API_KEY |-> API_KEY, stopped |-> FALSE,
     called |-> FALSE, sent |-> 0, response |-> "none", data |-> None,
     shown |-> shown, page |-> NoPage]

\* A run that called fetch_breach_data and branched on `if data:`.
FetchRun(API_KEY, email, c, shown, p) ==
    [ran |-> TRUE, email |-> email, API_KEY |-> API_KEY, stopped |-> FALSE,
     called |-> TRUE, sent |-> c.sent, response |-> c.response, data |-> c.value,
     shown |-> c.messages \cup shown, page |-> p]

\* The email test without the "@" check.
EmailGuard_NonEmpty(email) == email # <<>>

\* EmailHacks.py line 64: if email and "@" in email
EmailGuard(email) == email # <<>> /\ HasAt(email)

\* Email Hacks.py with its outer `if email:` always taken.
EmailEntered_Always(email) == TRUE

\* Email Hacks.py line 42: if email
EmailEntered(email) == email # <<>>

ResultElements == {"table", "expanders", "year_chart", "risk_chart", "download"}

\* EmailHacks.py, top to bottom, with the search box holding one of the texts
\* of qs.  The result is the set of possible outcomes [run, entry]: the run's
\* record and the cache entry of the email afterwards.
EmailHacksRun(API_KEY, email, qs, entry) ==
    IF ~KeyPresent(API_KEY)
    THEN { [run |-> KeyMissingRun(API_KEY, email), entry |-> entry] }
    ELSE IF EmailGuard(email)
    THEN UNION { IF Truthy(c.value)
                 THEN { [run |-> FetchRun(API_KEY, email, c,
                                          ResultElements \cup {"search_box"}, p),
                         entry |-> c.entry] :
                        p \in UNION { EmailHacksPages(c.value.list, q) : q \in qs } }
                 ELSE { [run |-> FetchRun(API_KEY, email, c, {"no_breaches"}, NoPage),
                         entry |-> c.entry] } :
                 c \in CachedCalls(entry) }
    ELSE { [run |-> NoFetchRun(API_KEY, email, {"warning"}), entry |-> entry] }

\* Email Hacks.py, top to bottom: `if email:` and `if "@" in email:` are nested,
\* and the warning is the else of the inner one.
EmailHacksV1Run(API_KEY, email, entry) ==
    IF ~KeyPresent(API_KEY)
    THEN { [run |-> KeyMissingRun(API_KEY, email), entry |-> entry] }
    ELSE IF EmailEntered(email)
    THEN IF HasAt(email)
         THEN UNION { IF Truthy(c.value)
                      THEN { [run |-> FetchRun(API_KEY, email, c,
                                               {"table", "expanders", "download"}, p),
                              entry |-> c.entry] :
                             p \in EmailHacksV1Pages(c.value.list) }
                      ELSE { [run |-> FetchRun(API_KEY, email, c, {"no_breaches"}, NoPage),
                              entry |-> c.entry] } :
                      c \in CachedCalls(entry) }
         ELSE { [run |-> NoFetchRun(API_KEY, email, {"warning"}), entry |-> entry] }
    ELSE { [run |-> NoFetchRun(API_KEY, email, {}), entry |-> entry] }

(***************************************************************************)
(* Spec: sessions of the two scripts                                       *)
(***************************************************************************)
Init ==
    /\ env \in [EnvVars -> EnvValues]
    /\ cache = [s \in Scripts |-> [e \in Emails |-> NotCached]]
    /\ requests = [s \in Scripts |-> [e \in Emails |-> 0]]
    /\ run = [s \in Scripts |-> NoRun]
    /\ fetched = <<>>
    /\ search_query = <<>>
    /\ page = NoPage

\* The effect of one run of script s on the run record, the cache and the
\* request counter.  A run that would send a request is not taken once the
\* counter has reached its cap.
Commit(s, email, o) ==
    /\ o.run.sent = 1 => requests[s][email] < MaxRequests
    /\ run' = [run EXCEPT ![s] = o.run]
    /\ cache' = [cache EXCEPT ![s][email] = o.entry]
    /\ requests' = [requests EXCEPT ![s][email] = @ + o.run.sent]
    /\ UNCHANGED <<env, fetched, search_query, page>>

\* The texts the search box can hold when a run starts: it keeps a typed text
\* only if the previous run rendered it, and is empty otherwise.
SearchTexts == IF "search_box" \in run["EmailHacks"].shown THEN Queries ELSE { <<>> }

\* A rerun of EmailHacks.py with the email widget holding email.
RunEmailHacks(email) ==
    \E o \in EmailHacksRun(getenv("RapidAPI"), email, SearchTexts,
                           cache["EmailHacks"][email]) :
        Commit("EmailHacks", email, o)

\* A rerun of Email Hacks.py with the email widget holding email.
RunEmailHacksV1(email) ==
    \E o \in EmailHacksV1Run(getenv("RapidAPI"), email, cache["EmailHacksV1"][email]) :
        Commit("EmailHacksV1", email, o)

Next ==
    \/ \E email \in Emails : RunEmailHacks(email)
    \/ \E email \in Emails : RunEmailHacksV1(email)

Spec == Init /\ [][Next]_vars

(***************************************************************************)
(* SpecRender: the display code of the `if data:` branch on its own, over  *)
(* every record list up to MaxRecords and every search text                *)
(***************************************************************************)
InitRender ==
    /\ env = [v \in EnvVars |-> "k"]
    /\ cache = [s \in Scripts |-> [e \in Emails |-> NotCached]]
    /\ requests = [s \in Scripts |-> [e \in Emails |-> 0]]
    /\ run = [s \in Scripts |-> NoRun]
    /\ fetched \in SeqsUpTo(Records, MaxRecords) \ {<<>>}
    /\ search_query \in Queries
    /\ page = NoPage

ShowEmailHacks ==
    /\ page = NoPage
    /\ page' \in EmailHacksPages(fetched, search_query)
    /\ UNCHANGED <<env, cache, requests, run, fetched, search_query>>

ShowEmailHacksV1 ==
    /\ page = NoPage
    /\ page' \in EmailHacksV1Pages(fetched)
    /\ UNCHANGED <<env, cache, requests, run, fetched, search_query>>

NextRender == ShowEmailHacks \/ ShowEmailHacksV1

SpecRender == InitRender /\ [][NextRender]_vars

(***************************************************************************)
(* Properties                                                              *)
(***************************************************************************)
\* The colour of each level in the sidebar guide (green Low, yellow Medium,
\* red High).
GuideColor(level) ==
    IF level = "Low" THEN "green" ELSE IF level = "Medium" THEN "yellow" ELSE "red"

\* Literal, case-insensitive substring test.
ContainsIgnoreCase(name, q) ==
    /\ name # NoName
    /\ \E i \in 1..(Len(name) - Len(q) + 1) :
          \A j \in 1..Len(q) : Lower(q[j]) = Lower(name[i + j - 1])

\* C1: every row count gets the risk level the sidebar guide documents (Low
\* below 10,000, Medium from 10,000 to 1,000,000 inclusive, High above).
C1_RiskMatchesGuide ==
    page.script = "EmailHacks" =>
        \A i \in DOMAIN page.table :
            page.table[i].risk_level = GuideRisk(page.table[i].rows)

\* C2 as stated: whenever the download is offered, the exported file has one
\* entry per fetched record, whatever the search text.
C2_ExportHasEveryRecord ==
    page # NoPage =>
        /\ Len(page.export) = Len(fetched)
        /\ \A i \in DOMAIN page.export :
              /\ page.export[i].name = fetched[i].name
              /\ page.export[i].rows = fetched[i].rows

\* C2 amended: the exported file has one entry per record shown in the table, in
\* the same order, each the fetched record of that row; that is every fetched
\* record in Email Hacks.py and, in EmailHacks.py, when the search text is empty.
C2_ExportIsTable ==
    page # NoPage =>
        /\ Len(page.export) = Len(page.table)
        /\ \A i \in DOMAIN page.export :
              /\ page.export[i].name = fetched[page.table[i].idx + 1].name
              /\ page.export[i].rows = fetched[page.table[i].idx + 1].rows
        /\ \A i, j \in DOMAIN page.table : i < j => page.table[i].idx < page.table[j].idx
        /\ (page.script = "EmailHacksV1" \/ search_query = <<>>) =>
              Len(page.export) = Len(fetched)

C2_Witness ==
    /\ page.script = "EmailHacks"
    /\ search_query # <<>>
    /\ Len(page.export) > 0
    /\ Len(page.export) < Len(fetched)

\* The positions of the fetched records whose name contains q (all when q is
\* empty; none with a missing name otherwise).
Matching(data, q) ==
    { i - 1 : i \in { k \in 1..Len(data) : q = <<>> \/ ContainsIgnoreCase(data[k].name, q) } }

\* C8: table, expanders and both charts are computed from exactly the fetched
\* records whose name contains the search text case-insensitively, each once,
\* with the risk level assign_risk gives its row count.
C8_SameFilteredSet ==
    page.script = "EmailHacks" =>
        LET want == Matching(fetched, search_query)
            level(k) == assign_risk(fetched[k + 1].rows)
        IN  /\ { page.table[i].idx : i \in DOMAIN page.table } = want
            /\ Len(page.table) = Cardinality(want)
            /\ \A i \in DOMAIN page.table : page.table[i].risk_level = level(page.table[i].idx)
            /\ Len(page.expanders) = Len(page.table)
            /\ \A i \in DOMAIN page.expanders :
                  /\ page.expanders[i].idx = page.table[i].idx
                  /\ page.expanders[i].risk_level = page.table[i].risk_level
            /\ \A i \in DOMAIN page.pie :
                  page.pie[i].count = Cardinality({ k \in want : level(k) = page.pie[i].label })
            /\ { page.pie[i].label : i \in DOMAIN page.pie } = { level(k) : k \in want }
            /\ \A y \in DOMAIN page.year_counts :
                  page.year_counts[y] =
                      Cardinality({ k \in want : YearOf(fetched[k + 1].breach_date) = y })
            /\ DOMAIN page.year_counts =
                  { YearOf(fetched[k + 1].breach_date) : k \in want } \ {NaT}

\* C9: in the risk pie chart the Low slice is green, the Medium slice yellow and
\* the High slice red.
C9_SliceColours ==
    page.script = "EmailHacks" =>
        \A i \in DOMAIN page.pie : page.pie[i].color = GuideColor(page.pie[i].label)

\* C3: a run whose GET fails shows the error message, gets None from
\* fetch_breach_data and renders no table, expander, chart or download button.
C3_FailedFetch ==
    \A s \in Scripts :
        (run[s].sent = 1 /\ run[s].response = "failed") =>
            /\ "fetch_error" \in run[s].shown
            /\ run[s].data = None
            /\ run[s].shown \cap ResultElements = {}
            /\ run[s].page = NoPage

C3_Witness == \E s \in Scripts : run[s].sent = 1 /\ run[s].response = "failed"

\* C4: "No breaches found" is shown only when the lookup succeeded with zero
\* records, never when it ended in an HTTP failure.
C4_NoBreachesOnlyOnEmpty ==
    \A s \in Scripts :
        "no_breaches" \in run[s].shown =>
            /\ run[s].data = Some(<<>>)
            /\ "fetch_error" \notin run[s].shown

\* C5: a run reports the missing key and stops exactly when RAPIDAPI_KEY, the
\* variable its message names, is unset or empty.
C5_KeyCheckReadsNamedVariable ==
    \A s \in Scripts :
        run[s].ran =>
            ((run[s].stopped /\ "key_error" \in run[s].shown)
                <=> ~KeyPresent(env["RAPIDAPI_KEY"]))

\* C6: a run sends at most one GET, and only with the API key present and an
\* email that is non-empty and contains "@".
C6_RequestGuard ==
    \A s \in Scripts :
        /\ run[s].sent <= 1
        /\ run[s].sent = 1 =>
              /\ KeyPresent(env["RapidAPI"])
              /\ run[s].email # <<>>
              /\ HasAt(run[s].email)
        /\ \A e \in Emails : (e = <<>> \/ ~HasAt(e)) => requests[s][e] = 0

C6_Witness == \E s \in Scripts : run[s].sent = 1 /\ requests[s][run[s].email] = 1

\* What a run ended in, and what its lookup returned.
OutcomeClass(r) ==
    r.shown \cap {"key_error", "warning", "fetch_error", "no_breaches", "download"}
DataClass(r) ==
    IF ~r.called THEN "not fetched"
    ELSE IF r.data = None THEN "failure"
    ELSE IF r.data.list = <<>> THEN "empty list" ELSE "non-empty list"
SameInputs(r1, r2) ==
    /\ r1.ran /\ r2.ran
    /\ r1.email = r2.email
    /\ DataClass(r1) = DataClass(r2)

\* C7 as stated: on the same key presence, email and API response the two
\* scripts end in the same outcome class.
C7_SameOutcome ==
    SameInputs(run["EmailHacks"], run["EmailHacksV1"]) =>
        OutcomeClass(run["EmailHacks"]) = OutcomeClass(run["EmailHacksV1"])

\* C7 amended: the same outcome class except with the key present and the email
\* empty, where EmailHacks.py warns of an invalid email and Email Hacks.py
\* shows nothing.
C7_SameOutcomeButEmptyEmail ==
    SameInputs(run["EmailHacks"], run["EmailHacksV1"]) =>
        IF KeyPresent(env["RapidAPI"]) /\ run["EmailHacks"].email = <<>>
        THEN /\ OutcomeClass(run["EmailHacks"]) = {"warning"}
             /\ OutcomeClass(run["EmailHacksV1"]) = {}
        ELSE OutcomeClass(run["EmailHacks"]) = OutcomeClass(run["EmailHacksV1"])

C7_Witness ==
    /\ SameInputs(run["EmailHacks"], run["EmailHacksV1"])
    /\ KeyPresent(env["RapidAPI"])
    /\ run["EmailHacks"].email = <<>>

\* C10: the API is requested at most once per email; once an email is in the
\* cache (a None result included) no run sends a request for it or changes its
\* entry, and every run that calls fetch_breach_data branches on the entry's
\* value and shows the messages stored with it.
C10_OncePerEmail ==
    /\ [](\A s \in Scripts : \A e \in Emails : requests[s][e] <= 1)
    /\ [](\A s \in Scripts :
            run[s].called =>
                /\ cache[s][run[s].email].cached
                /\ run[s].data = cache[s][run[s].email].value
                /\ cache[s][run[s].email].messages \subseteq run[s].shown)
    /\ [][\A s \in Scripts : \A e \in Emails :
            cache[s][e].cached =>
                /\ cache'[s][e] = cache[s][e]
                /\ requests'[s][e] = requests[s][e]]_vars

C10_Witness ==
    \E s \in Scripts :
        /\ run[s].called
        /\ run[s].sent = 0
        /\ run[s].data = None
        /\ "fetch_error" \in run[s].shown

====
